---------------------------- MODULE Spec2Model ----------------------------
(***************************************************************************)
(* Spectrum deconfliction service (mcp_server): the request/decide/commit  *)
(* protocol of tools.py over the in-memory stores, with the deconfliction  *)
(* engine and the ROE engine it calls.                                     *)
(*                                                                         *)
(* Units.  Python floats are modelled by exact integers:                   *)
(*   frequency           kHz      (2400.0 MHz = 2400000)                   *)
(*   bandwidth           kHz                                               *)
(*   band edges          half-kHz (centre*2 -/+ bandwidth)                 *)
(*   distance            metres                                            *)
(*   power, path loss    centi-dB (40 dBm = 4000)                          *)
(*   severity            1/SevScale (1.0 = SevScale)                       *)
(*   time                minutes; a datetime is (minute, aware) where      *)
(*                       aware says whether it carries a UTC offset        *)
(* math.log10 and the haversine formula are tabulated for the sample       *)
(* points and frequencies the specifications draw their inputs from.       *)
(***************************************************************************)
EXTENDS Integers, Sequences, FiniteSets, TLC

VARIABLES
    now,            \* the clock read by datetime.utcnow()
    requests,       \* RequestStore._requests: request_id -> request
    responses,      \* RequestStore._responses: request_id -> response
    allocations,    \* AllocationStore._allocations: allocation_id -> allocation
    nextAllocId,    \* uuid4 for allocation ids: the next fresh id
    nextAuthId,     \* uuid4 for authorization ids: the next fresh id
    result,         \* what the last tool call returned (or raised)
    probe,          \* the last direct call of an engine function, with its output
    cache,          \* llm_abstraction.cache._global_cache, with the clock it reads
    broker          \* the MessageBroker of a workflow run

sysVars == <<now, requests, responses, allocations, nextAllocId, nextAuthId, result>>
vars == <<now, requests, responses, allocations, nextAllocId, nextAuthId, result, probe, cache, broker>>

-----------------------------------------------------------------------------
(* Bounds of the model *)

MaxRequests == 2
MaxAllocs == 2
MaxTime == 1
MaxCount == 3
MaxExisting == 2
MaxConflicts == 2
MaxFlash == 6
MaxStart == 4
MaxSize == 2
MaxClock == 2
MaxCalls == 4
MaxHistory == 2
MaxSubscriptions == 2
MaxOps == 4

-----------------------------------------------------------------------------
(* Program constants *)

\* Severities are exact multiples of 1/50000 for the inputs used
SevScale == 50 * 1000
NoAuth == 0
\* A start_time string that datetime.fromisoformat rejects
Unparseable == -1
\* AllocationResult of a refused commit: allocation_id = "" and expires_at = None
NoAllocationId == 0
NoExpiry == -1
NoTtl == -1
NoCorrelation == 0
NoMessage == 0

min_frequency_separation == 5000
min_geographic_separation == 50000
interference_threshold == -9000
adjacent_channel_rejection == 6000
max_concurrent_flash == 5
step_khz == 1000

Min(a, b) == IF a <= b THEN a ELSE b
Max(a, b) == IF a >= b THEN a ELSE b
Abs(a) == IF a >= 0 THEN a ELSE -a

-----------------------------------------------------------------------------
(* Sample points and the tabulated transcendental functions *)

\* L0 = (35.0, 45.0), LA = (36.0, 46.0), LB = (36.27, 46.0), LC = (40.5, 46.0)
\* LD = (36.4496486388158, 46.0041): the haversine gives exactly 50.0 km from LA
\* LR = (35.0449653166732, 45.00032): the haversine gives exactly 5.0 km from L0
\* LY = (35.05, 45.0): 5.56 km from L0
Locations == {"L0", "LA", "LB", "LC", "LD", "LR", "LY"}

\* LX = (91.0, 46.0) is not a Location: lat is outside [-90, 90]
InBounds(location) == location \in Locations

\* _calculate_distance_km: haversine with R = 6371 km, in metres
calculate_distance(loc1, loc2) ==
    LET pair == {loc1, loc2} IN
    CASE loc1 = loc2 -> 0
      [] pair = {"L0", "LA"} -> 143383
      [] pair = {"L0", "LB"} -> 167657
      [] pair = {"L0", "LC"} -> 617846
      [] pair = {"LA", "LB"} -> 30023
      [] pair = {"LA", "LC"} -> 500377
      [] pair = {"LB", "LC"} -> 470355
      [] pair = {"LA", "LD"} -> 50000
      [] pair = {"L0", "LR"} -> 5000
      [] pair = {"L0", "LY"} -> 5560

\* 20 * math.log10(distance_km) in centi-dB, for the distances above
\* (1 m is the clamp 0.001 km)
Log20Distance(d) ==
    CASE d = 1 -> -6000
      [] d = 30023 -> 2955
      [] d = 50000 -> 3398
      [] d = 143383 -> 4313
      [] d = 167657 -> 4449
      [] d = 470355 -> 5345
      [] d = 500377 -> 5399
      [] d = 617846 -> 5582

\* 20 * math.log10(frequency_mhz) in centi-dB, for the whole MHz from 72 to 88
\* and for 60.1 MHz and 121.5 MHz
Log20Frequency(f) ==
    CASE f = 121500 -> 4169
      [] f = 60100 -> 3558
      [] f = 72000 -> 3715
      [] f = 73000 -> 3727
      [] f = 74000 -> 3738
      [] f = 75000 -> 3750
      [] f = 76000 -> 3762
      [] f = 77000 -> 3773
      [] f = 78000 -> 3784
      [] f = 79000 -> 3795
      [] f = 80000 -> 3806
      [] f = 81000 -> 3817
      [] f = 82000 -> 3828
      [] f = 83000 -> 3838
      [] f = 84000 -> 3849
      [] f = 85000 -> 3859
      [] f = 86000 -> 3869
      [] f = 87000 -> 3879
      [] f = 88000 -> 3889

-----------------------------------------------------------------------------
(* DeconflictionEngine (business_logic/deconfliction.py).  An Optional      *)
(* Conflict is a sequence of length 0 (None) or 1.                          *)

Conflict(asset, type, severity, description) ==
    [conflicting_asset |-> asset, conflict_type |-> type,
     severity |-> severity, description |-> description]

\* Variant: windows that touch count as overlapping
_time_overlaps_Touching(start1, end1, start2, end2) ==
    ~(end1 < start2 \/ start1 > end2)

_time_overlaps(start1, end1, start2, end2) ==
    ~(end1 <= start2 \/ start1 >= end2)

\* The rounding of a band edge frequency -/+ (bandwidth_khz / 1000) / 2 computed
\* in binary floating point: computed edge minus exact edge, in hundredths of
\* 2^-46 MHz, for the edges that fall on 80.01 MHz and 79.99 MHz
EdgeRounding(frequency, bandwidth_khz, upper) ==
    CASE frequency = 80000 /\ bandwidth_khz = 20 /\ upper -> 36
      [] frequency = 80000 /\ bandwidth_khz = 20 /\ ~upper -> -36
      [] frequency = 80020 /\ bandwidth_khz = 20 /\ ~upper -> -64
      [] frequency = 79980 /\ bandwidth_khz = 20 /\ upper -> 64
      [] frequency = 80030 /\ bandwidth_khz = 40 /\ ~upper -> 36
      [] frequency = 79970 /\ bandwidth_khz = 40 /\ upper -> -36

\* Band edges in half-kHz.  Edges that differ exactly also differ as computed;
\* edges that are exactly equal compare by their rounding.  A computed overlap
\* of a few 2^-46 MHz gives a severity far below 1 / SevScale, recorded as 1.
_check_frequency_conflict(request, allocation) ==
    LET req_min == 2 * request.frequency - request.bandwidth_khz
        req_max == 2 * request.frequency + request.bandwidth_khz
        alloc_min == 2 * allocation.frequency - allocation.bandwidth_khz
        alloc_max == 2 * allocation.frequency + allocation.bandwidth_khz
        req_below ==
            \/ req_max < alloc_min
            \/ /\ req_max = alloc_min
               /\ EdgeRounding(request.frequency, request.bandwidth_khz, TRUE)
                      <= EdgeRounding(allocation.frequency,
                                      allocation.bandwidth_khz, FALSE)
        req_above ==
            \/ req_min > alloc_max
            \/ /\ req_min = alloc_max
               /\ EdgeRounding(request.frequency, request.bandwidth_khz, FALSE)
                      >= EdgeRounding(allocation.frequency,
                                      allocation.bandwidth_khz, TRUE)
        overlap == Min(req_max, alloc_max) - Max(req_min, alloc_min)
        req_bandwidth == req_max - req_min
        severity == IF overlap = 0
                    THEN 1
                    ELSE Min(SevScale, (overlap * SevScale) \div req_bandwidth)
    IN  IF req_below \/ req_above
        THEN <<>>
        ELSE <<Conflict(allocation.asset_id, "FREQUENCY", severity,
                        "Frequency overlap")>>

_check_interference(request, allocation, distance_in) ==
    LET freq_separation == Abs(request.frequency - allocation.frequency)
        distance == IF distance_in < 1 THEN 1 ELSE distance_in
        fspl == Log20Distance(distance) + Log20Frequency(request.frequency) + 3245
        raw_power == request.power_dbm - fspl
        received_power ==
            IF freq_separation > 0
            THEN raw_power - Min(freq_separation, adjacent_channel_rejection)
            ELSE raw_power
        excess == received_power - interference_threshold
        severity == Min(SevScale, (excess * SevScale) \div 2000)
    IN  IF received_power > interference_threshold
        THEN <<Conflict(allocation.asset_id, "GEOGRAPHIC", severity,
                        "Potential interference")>>
        ELSE <<>>

\* The rounding of abs(request.frequency_mhz - allocation.frequency_mhz) for
\* frequencies exactly 5 MHz apart: computed separation minus 5.0, in units of
\* 2^-47 MHz.  A whole number of MHz is held exactly; 60.1 and 65.1 are held
\* as the nearest doubles, which lie 4.999999999999993 apart.
SeparationRounding(frequency1, frequency2) ==
    CASE frequency1 % 1000 = 0 /\ frequency2 % 1000 = 0 -> 0
      [] {frequency1, frequency2} = {60100, 65100} -> -1

\* freq_separation_mhz < self.min_frequency_separation_mhz
SeparationBelowMinimum(frequency1, frequency2) ==
    LET freq_separation == Abs(frequency1 - frequency2)
    IN  \/ freq_separation < min_frequency_separation
        \/ /\ freq_separation = min_frequency_separation
           /\ SeparationRounding(frequency1, frequency2) < 0

\* Variant: the interference check runs whether or not the co-channel check fired
_check_geographic_conflict_Both(request, allocation) ==
    LET distance == calculate_distance(request.location, allocation.location)
    IN  (IF SeparationBelowMinimum(request.frequency, allocation.frequency)
            /\ distance < min_geographic_separation
         THEN <<Conflict(allocation.asset_id, "GEOGRAPHIC",
                         SevScale - (distance * SevScale) \div min_geographic_separation,
                         "Geographic conflict")>>
         ELSE <<>>)
        \o _check_interference(request, allocation, distance)

_check_geographic_conflict(request, allocation) ==
    LET distance == calculate_distance(request.location, allocation.location)
    IN  IF SeparationBelowMinimum(request.frequency, allocation.frequency)
           /\ distance < min_geographic_separation
        THEN <<Conflict(allocation.asset_id, "GEOGRAPHIC",
                        SevScale - (distance * SevScale) \div min_geographic_separation,
                        "Geographic conflict")>>
        ELSE _check_interference(request, allocation, distance)

\* One allocation's contribution to the conflict list (the loop body)
ConflictsWith(request, allocation) ==
    IF ~_time_overlaps(request.start_time,
                       request.start_time + request.duration_minutes,
                       allocation.start_time, allocation.end_time)
    THEN <<>>
    ELSE _check_frequency_conflict(request, allocation)
         \o _check_geographic_conflict(request, allocation)

RECURSIVE check_conflicts(_, _)
check_conflicts(request, existing_allocations) ==
    IF existing_allocations = <<>>
    THEN <<>>
    ELSE ConflictsWith(request, Head(existing_allocations))
         \o check_conflicts(request, Tail(existing_allocations))

RECURSIVE MaxSeverity(_)
MaxSeverity(conflicts) ==
    IF Len(conflicts) = 1
    THEN conflicts[1].severity
    ELSE Max(conflicts[1].severity, MaxSeverity(Tail(conflicts)))

\* Variant: the override is granted whatever the priority
evaluate_priority_override_AnyPriority(request, conflicts) ==
    IF conflicts = <<>>
    THEN TRUE
    ELSE 2 * MaxSeverity(conflicts) < SevScale

\* Variant: the severity boundary is inclusive
evaluate_priority_override_Inclusive(request, conflicts) ==
    IF conflicts = <<>>
    THEN TRUE
    ELSE IF request.priority \in {"FLASH", "IMMEDIATE"}
         THEN 2 * MaxSeverity(conflicts) <= SevScale
         ELSE FALSE

evaluate_priority_override(request, conflicts) ==
    IF conflicts = <<>>
    THEN TRUE
    ELSE IF request.priority \in {"FLASH", "IMMEDIATE"}
         THEN 2 * MaxSeverity(conflicts) < SevScale
         ELSE FALSE

\* The while loop of suggest_alternatives: tested holds <<frequency, conflict count>>
RECURSIVE ScanFrequencies(_, _, _, _, _, _, _)
ScanFrequencies(request, existing_allocations, num_suggestions, current_freq, max_freq, suggestions, tested_freqs) ==
    IF current_freq <= max_freq /\ Len(suggestions) < num_suggestions
    THEN LET test_request == [request EXCEPT !.frequency = current_freq]
             conflicts == check_conflicts(test_request, existing_allocations)
         IN  ScanFrequencies(request, existing_allocations, num_suggestions,
                             current_freq + step_khz, max_freq,
                             IF Len(conflicts) = 0
                             THEN Append(suggestions, current_freq)
                             ELSE suggestions,
                             Append(tested_freqs, <<current_freq, Len(conflicts)>>))
    ELSE [suggestions |-> suggestions, tested_freqs |-> tested_freqs]

\* Variant: an entry is placed before the entries of equal conflict count
RECURSIVE InsertByCount_TiesFirst(_, _)
InsertByCount_TiesFirst(sorted, x) ==
    IF sorted = <<>>
    THEN <<x>>
    ELSE IF sorted[Len(sorted)][2] < x[2]
         THEN Append(sorted, x)
         ELSE Append(InsertByCount_TiesFirst(SubSeq(sorted, 1, Len(sorted) - 1), x),
                     sorted[Len(sorted)])

\* list.sort(key=lambda x: x[1]): stable, ascending conflict count
RECURSIVE InsertByCount(_, _)
InsertByCount(sorted, x) ==
    IF sorted = <<>>
    THEN <<x>>
    ELSE IF sorted[Len(sorted)][2] <= x[2]
         THEN Append(sorted, x)
         ELSE Append(InsertByCount(SubSeq(sorted, 1, Len(sorted) - 1), x),
                     sorted[Len(sorted)])

RECURSIVE SortByCount(_, _)
SortByCount(tested_freqs, sorted) ==
    IF tested_freqs = <<>>
    THEN sorted
    ELSE SortByCount(Tail(tested_freqs), InsertByCount(sorted, Head(tested_freqs)))

SeqRange(s) == {s[i] : i \in 1..Len(s)}

\* Variant: the fill loop does not skip frequencies already suggested
TakeRanked_Always(freq, suggestions) == TRUE

\* Whether the fill loop takes freq into suggestions
TakeRanked(freq, suggestions) == freq \notin SeqRange(suggestions)

\* The for loop over the ranked frequencies, with its break
RECURSIVE FillFromRanking(_, _, _)
FillFromRanking(suggestions, ranked, num_suggestions) ==
    IF ranked = <<>>
    THEN suggestions
    ELSE IF TakeRanked(Head(ranked)[1], suggestions)
         THEN LET more == Append(suggestions, Head(ranked)[1])
              IN  IF Len(more) >= num_suggestions
                  THEN more
                  ELSE FillFromRanking(more, Tail(ranked), num_suggestions)
         ELSE FillFromRanking(suggestions, Tail(ranked), num_suggestions)

suggest_alternatives(request, existing_allocations, num_suggestions) ==
    LET search_range == request.frequency \div 10
        min_freq == request.frequency - search_range
        max_freq == request.frequency + search_range
        scan == ScanFrequencies(request, existing_allocations, num_suggestions,
                                min_freq, max_freq, <<>>, <<>>)
        filled ==
            IF Len(scan.suggestions) < num_suggestions
            THEN FillFromRanking(scan.suggestions,
                                 SortByCount(scan.tested_freqs, <<>>),
                                 num_suggestions)
            ELSE scan.suggestions
    IN  SubSeq(filled, 1, Min(num_suggestions, Len(filled)))

-----------------------------------------------------------------------------
(* ROEEngine (business_logic/roe_engine.py).  A violation list is a         *)
(* sequence of the kinds of violation found, in the order of the checks.    *)

restricted_frequencies ==
    <<<<121500, 121500>>, <<243000, 243000>>, <<406000, 406100>>>>

restricted_zones ==
    <<[name |-> "Medical Facility Alpha", location |-> "L0",
       radius |-> 5000, allowed_actions |-> {}]>>

\* <<min_freq, max_freq, max_power>>
power_limits ==
    <<<<30000, 88000, 5000>>, <<225000, 400000, 5500>>, <<1000000, 2000000, 6000>>>>

\* One violation of kind tag per element of s
TagEach(s, tag) == [i \in 1..Len(s) |-> tag]

_check_frequency_restrictions(frequency) ==
    LET inBand(b) == b[1] <= frequency /\ frequency <= b[2]
    IN  TagEach(SelectSeq(restricted_frequencies, inBand), "restricted band")

_check_geographic_restrictions(location, action_type) ==
    LET inZone(zone) ==
            /\ calculate_distance(location, zone.location) <= zone.radius
            /\ action_type \notin zone.allowed_actions
    IN  TagEach(SelectSeq(restricted_zones, inZone), "restricted zone")

_check_power_limits(frequency, power_dbm) ==
    LET over(l) == l[1] <= frequency /\ frequency <= l[2] /\ power_dbm > l[3]
    IN  TagEach(SelectSeq(power_limits, over), "power limit")

\* Variant: the checks stop at the first one that reports a violation
validate_request_FirstOnly(request, current_flash_count) ==
    LET freq_violations == _check_frequency_restrictions(request.frequency)
        geo_violations ==
            _check_geographic_restrictions(request.location, "COMMUNICATION")
        power_violations ==
            _check_power_limits(request.frequency, request.power_dbm)
    IN  IF freq_violations # <<>> THEN freq_violations
        ELSE IF geo_violations # <<>> THEN geo_violations
        ELSE IF power_violations # <<>> THEN power_violations
        ELSE IF request.priority = "FLASH"
                /\ current_flash_count >= max_concurrent_flash
             THEN <<"flash quota">>
             ELSE <<>>

validate_request(request, current_flash_count) ==
    _check_frequency_restrictions(request.frequency)
    \o _check_geographic_restrictions(request.location, "COMMUNICATION")
    \o _check_power_limits(request.frequency, request.power_dbm)
    \o (IF request.priority = "FLASH" /\ current_flash_count >= max_concurrent_flash
        THEN <<"flash quota">>
        ELSE <<>>)

-----------------------------------------------------------------------------
(* The stores (data/allocations.py, data/requests.py)                       *)

MinOf(S) == CHOOSE m \in S : \A x \in S : m <= x

\* dict.values() in insertion order: ids are handed out in increasing order
RECURSIVE ValuesInOrder(_, _)
ValuesInOrder(store, ids) ==
    IF ids = {}
    THEN <<>>
    ELSE <<store[MinOf(ids)]>> \o ValuesInOrder(store, ids \ {MinOf(ids)})

\* datetime comparison raises TypeError between a naive and an aware operand
Comparable(aware1, aware2) == aware1 = aware2

\* Whether AllocationStore.get_active_allocations(at_time) raises
get_active_raises(at_aware) ==
    \E id \in DOMAIN allocations : ~Comparable(allocations[id].aware, at_aware)

IsActiveAt(alloc, at_time) ==
    alloc.start_time <= at_time /\ at_time <= alloc.end_time

get_active_allocations(at_time) ==
    ValuesInOrder(allocations,
                  {id \in DOMAIN allocations : IsActiveAt(allocations[id], at_time)})

get_all_responses == {responses[id] : id \in DOMAIN responses}

\* Variant: the request being decided (the newest) is not counted
FlashCount_Earlier(reqs) ==
    Cardinality({id \in DOMAIN reqs :
                    reqs[id].priority = "FLASH" /\ id < Cardinality(DOMAIN reqs)})

FlashCount(reqs) == Cardinality({id \in DOMAIN reqs : reqs[id].priority = "FLASH"})

\* Variant: a new allocation replaces the stored allocations of the same asset
add_ReplacingAsset(store, allocation) ==
    (allocation.allocation_id :> allocation)
    @@ [id \in {i \in DOMAIN store : store[i].asset_id # allocation.asset_id}
           |-> store[id]]

\* AllocationStore.add: self._allocations[allocation.allocation_id] = allocation
add(store, allocation) ==
    (allocation.allocation_id :> allocation) @@ store

\* Variant: the sweep keeps an allocation that ends exactly at current_time
Unexpired_Inclusive(alloc, current_time) == alloc.end_time >= current_time

\* The test of AllocationStore.clear_expired for the allocations it keeps
Unexpired(alloc, current_time) == alloc.end_time > current_time

\* The store AllocationStore.clear_expired leaves
SweptStore(store, current_time) ==
    [id \in {i \in DOMAIN store : Unexpired(store[i], current_time)} |-> store[id]]

\* AllocationStore._frequencies_overlap, the range in kHz
_frequencies_overlap(frequency, bandwidth_khz, min_freq, max_freq) ==
    ~(2 * frequency + bandwidth_khz < 2 * min_freq
      \/ 2 * frequency - bandwidth_khz > 2 * max_freq)

-----------------------------------------------------------------------------
(* Inputs of the tool calls *)

BaseRequest ==
    [asset_rid |-> "A1", frequency |-> 80000, bandwidth_khz |-> 20,
     power_dbm |-> 4000, location |-> "LA", start_time |-> 0, aware |-> FALSE,
     duration_minutes |-> 2, priority |-> "ROUTINE"]

RequestInputs ==
    [asset_rid : {"A1"}, frequency : {80000}, bandwidth_khz : {20},
     power_dbm : {4000}, location : {"LA", "LB"}, start_time : {0},
     aware : {FALSE}, duration_minutes : {2}, priority : {"ROUTINE", "FLASH"}]
    \cup {[BaseRequest EXCEPT !.aware = TRUE],
          [BaseRequest EXCEPT !.frequency = 121500]}

AllocateInputs ==
    [asset_id : {"A1"}, frequency : {80000, 80015}, bandwidth_khz : {20},
     duration_minutes : {1}, location : {"LA"},
     power_dbm : {4000}, priority : {"ROUTINE"}]

\* NoAuth is a null authorization id; nextAuthId stands for a string that no
\* approval has issued
AuthorizationInputs == NoAuth..nextAuthId

-----------------------------------------------------------------------------
(* The tools (mcp_server/tools.py) *)

Response(request_id, status, conflicts, alternatives, justification, authorization_id) ==
    [request_id |-> request_id, status |-> status, conflict_details |-> conflicts,
     alternative_frequencies |-> alternatives, justification |-> justification,
     authorization_id |-> authorization_id]

\* Variant: the conflict check runs before the ROE verdict is returned
DeniedResponse_WithConflicts(request) ==
    Response(request.request_id, "DENIED",
             check_conflicts(request, get_active_allocations(request.start_time)),
             <<>>, "ROE violations", NoAuth)

\* Lines 151-156: the decision for a request that violates the ROE
DeniedResponse(request) ==
    Response(request.request_id, "DENIED", <<>>, <<>>, "ROE violations", NoAuth)

\* Variant: an authorization id is issued whatever the status
Decide_AuthOnConflict(request, conflicts, active) ==
    LET approved == conflicts = <<>> \/ evaluate_priority_override(request, conflicts)
        status == IF approved THEN "APPROVED" ELSE "CONFLICT"
        alternatives ==
            IF status # "APPROVED"
            THEN suggest_alternatives(request, active, 3)
            ELSE <<>>
    IN  Response(request.request_id, status, conflicts, alternatives,
                 IF approved THEN "No conflicts detected" ELSE "Conflicts detected",
                 nextAuthId)

\* Variant: an approved decision that is not yet committed reserves its spectrum
Decide_Reserving(request, conflicts, active) ==
    LET reserved ==
            \E id \in DOMAIN responses :
                /\ responses[id].status = "APPROVED"
                /\ requests[id].frequency = request.frequency
                /\ requests[id].location = request.location
        approved == /\ ~reserved
                    /\ \/ conflicts = <<>>
                       \/ evaluate_priority_override(request, conflicts)
        status == IF approved THEN "APPROVED" ELSE "CONFLICT"
        alternatives ==
            IF status # "APPROVED"
            THEN suggest_alternatives(request, active, 3)
            ELSE <<>>
    IN  Response(request.request_id, status, conflicts, alternatives,
                 IF approved THEN "No conflicts detected" ELSE "Conflicts detected",
                 IF approved THEN nextAuthId ELSE NoAuth)

\* Lines 168-199: the decision for a compliant request, given the conflicts
Decide(request, conflicts, active) ==
    LET approved == conflicts = <<>> \/ evaluate_priority_override(request, conflicts)
        status == IF approved THEN "APPROVED" ELSE "CONFLICT"
        justification ==
            IF conflicts = <<>> THEN "No conflicts detected"
            ELSE IF approved THEN "High priority override"
            ELSE "Conflicts detected"
        authorization_id == IF approved THEN nextAuthId ELSE NoAuth
        alternatives ==
            IF status # "APPROVED"
            THEN suggest_alternatives(request, active, 3)
            ELSE <<>>
    IN  Response(request.request_id, status, conflicts, alternatives,
                 justification, authorization_id)

\* Variant: duration_minutes is not validated
RequestError_NoDuration(input) ==
    IF ~InBounds(input.location) THEN "ValidationError"
    ELSE IF input.start_time = Unparseable THEN "ValueError"
    ELSE IF input.frequency <= 0 \/ input.bandwidth_khz <= 0
         THEN "ValidationError"
         ELSE "none"

\* Lines 128-139: what building the DeconflictionRequest raises, "none" if
\* nothing: Location(**location), then fromisoformat, then the gt=0 fields
RequestError(input) ==
    IF ~InBounds(input.location) THEN "ValidationError"
    ELSE IF input.start_time = Unparseable THEN "ValueError"
    ELSE IF input.frequency <= 0 \/ input.bandwidth_khz <= 0
            \/ input.duration_minutes <= 0
         THEN "ValidationError"
         ELSE "none"

\* Lines 262-277: what building the FrequencyAllocation raises: Location,
\* the gt=0 fields, and end_after_start (end_time <= start_time)
AllocationError(input, start_time, end_time) ==
    IF ~InBounds(input.location) THEN "ValidationError"
    ELSE IF input.frequency <= 0 \/ input.bandwidth_khz <= 0
            \/ end_time <= start_time
         THEN "ValidationError"
         ELSE "none"

Returned(op, value) == [op |-> op, outcome |-> "returned", value |-> value]
Raised(op, error) == [op |-> op, outcome |-> "raised", value |-> [error |-> error]]

\* request_deconfliction, for at most max_requests stored requests
request_deconfliction_upto(input, max_requests) ==
    LET request_id == Cardinality(DOMAIN requests) + 1
        request == [request_id |-> request_id] @@ input
        stored == (request_id :> request) @@ requests
        roe_violations == validate_request(request, FlashCount(stored))
    IN  IF RequestError(input) # "none"
        THEN /\ result' = Raised("request_deconfliction", RequestError(input))
             /\ UNCHANGED <<now, requests, responses, allocations, nextAllocId,
                            nextAuthId, probe, cache, broker>>
        ELSE
        /\ Cardinality(DOMAIN requests) < max_requests
        /\ requests' = stored
        /\ IF roe_violations # <<>>
           THEN LET response == DeniedResponse(request)
                IN  /\ responses' = (request_id :> response) @@ responses
                    /\ result' = Returned("request_deconfliction", response)
                    /\ UNCHANGED nextAuthId
           ELSE IF get_active_raises(request.aware)
           THEN /\ result' = Raised("request_deconfliction", "TypeError")
                /\ UNCHANGED <<responses, nextAuthId>>
           ELSE LET active == get_active_allocations(request.start_time)
                    conflicts == check_conflicts(request, active)
                    response == Decide(request, conflicts, active)
                IN  /\ responses' = (request_id :> response) @@ responses
                    /\ result' = Returned("request_deconfliction", response)
                    /\ nextAuthId' = IF response.status = "APPROVED"
                                     THEN nextAuthId + 1
                                     ELSE nextAuthId
        /\ UNCHANGED <<now, allocations, nextAllocId, probe, cache, broker>>

request_deconfliction(input) == request_deconfliction_upto(input, MaxRequests)

\* Variant: the status of the decision is not checked
Authorized_IgnoreStatus(authorization_id) ==
    \E r \in get_all_responses : r.authorization_id = authorization_id

\* Variant: an authorization id is spent by its first commit
Authorized_SingleUse(authorization_id) ==
    /\ allocations = <<>>
    /\ \E r \in get_all_responses :
           r.authorization_id = authorization_id /\ r.status = "APPROVED"

Authorized(authorization_id) ==
    \E r \in get_all_responses :
        r.authorization_id = authorization_id /\ r.status = "APPROVED"

\* Variant: the clock is read to the even minute
utcnow_Coarse == (now \div 2) * 2

\* datetime.utcnow(): the naive reading of the clock
utcnow == now

allocate_frequency(input, authorization_id) ==
    IF ~Authorized(authorization_id)
    THEN /\ result' = Returned("allocate_frequency",
                               [allocation_id |-> NoAllocationId,
                                status |-> "FAILED", expires_at |-> NoExpiry,
                                message |-> "Invalid or missing authorization ID"])
         /\ UNCHANGED <<now, requests, responses, allocations, nextAllocId,
                        nextAuthId, probe, cache, broker>>
    ELSE IF AllocationError(input, utcnow, utcnow + input.duration_minutes) # "none"
    THEN /\ result' = Raised("allocate_frequency",
                             AllocationError(input, utcnow,
                                             utcnow + input.duration_minutes))
         /\ UNCHANGED <<now, requests, responses, allocations, nextAllocId,
                        nextAuthId, probe, cache, broker>>
    ELSE LET start_time == utcnow
             end_time == start_time + input.duration_minutes
             allocation ==
                 [allocation_id |-> nextAllocId, asset_id |-> input.asset_id,
                  frequency |-> input.frequency,
                  bandwidth_khz |-> input.bandwidth_khz,
                  location |-> input.location, start_time |-> start_time,
                  end_time |-> end_time, aware |-> FALSE,
                  priority |-> input.priority, power_dbm |-> input.power_dbm]
         IN  /\ nextAllocId <= MaxAllocs
             /\ allocations' = add(allocations, allocation)
             /\ nextAllocId' = nextAllocId + 1
             /\ result' = Returned("allocate_frequency",
                                   [allocation_id |-> nextAllocId,
                                    status |-> "SUCCESS",
                                    expires_at |-> end_time,
                                    message |-> "Frequency allocated"])
             /\ UNCHANGED <<now, requests, responses, nextAuthId, probe, cache, broker>>

\* Time passes between calls
Tick ==
    /\ now < MaxTime
    /\ now' = now + 1
    /\ UNCHANGED <<requests, responses, allocations, nextAllocId, nextAuthId,
                   result, probe, cache, broker>>

RequestDeconfliction == \E input \in RequestInputs : request_deconfliction(input)

AllocateFrequency ==
    \E input \in AllocateInputs, authorization_id \in AuthorizationInputs :
        allocate_frequency(input, authorization_id)

Init ==
    /\ now = 0
    /\ requests = <<>>
    /\ responses = <<>>
    /\ allocations = <<>>
    /\ nextAllocId = 1
    /\ nextAuthId = 1
    /\ result = [op |-> "none", outcome |-> "none", value |-> [error |-> "none"]]
    /\ probe = [op |-> "none"]
    /\ cache = [constructed |-> FALSE]
    /\ broker = [constructed |-> FALSE]

Next == RequestDeconfliction \/ AllocateFrequency \/ Tick

Spec == Init /\ [][Next]_vars

-----------------------------------------------------------------------------
(* Direct calls of the engine's functions: the stores stay as constructed  *)
(* and probe records the one call made and what it returned.               *)

EngineRequests ==
    [request_id : {1}, asset_rid : {"A1"}, frequency : {80000},
     bandwidth_khz : {20}, power_dbm : {4000, 6900}, location : {"LA", "LC"},
     start_time : {0}, aware : {FALSE}, duration_minutes : {2},
     priority : {"ROUTINE"}]

OverrideRequests ==
    {[request_id |-> 1] @@ [BaseRequest EXCEPT !.priority = p] :
        p \in {"ROUTINE", "PRIORITY", "IMMEDIATE", "FLASH"}}

EngineAllocation(frequency, location, start_time) ==
    [allocation_id |-> 1, asset_id |-> "A2", frequency |-> frequency,
     bandwidth_khz |-> 20, location |-> location, start_time |-> start_time,
     end_time |-> start_time + 2, aware |-> FALSE, priority |-> "ROUTINE",
     power_dbm |-> 4000]

\* Allocations over the request's window [0, 2), and one that starts when it ends
EngineAllocations ==
    {EngineAllocation(f, l, 0) :
        f \in {73000, 77000, 80000, 80010, 85000}, l \in {"LA", "LB"}}
    \cup {EngineAllocation(80000, "LA", 2)}

EngineAllocationLists ==
    UNION {[1..n -> EngineAllocations] : n \in 0..MaxExisting}

Severities == {1, (SevScale \div 2) - 1, SevScale \div 2, (SevScale \div 2) + 1, SevScale}

EngineConflicts ==
    {Conflict("A2", "FREQUENCY", sev, "Frequency overlap") : sev \in Severities}

EngineConflictLists ==
    UNION {[1..n -> EngineConflicts] : n \in 0..MaxConflicts}

CallCheckConflicts ==
    \E request \in EngineRequests, existing \in EngineAllocationLists :
        /\ probe.op = "none"
        /\ probe' = [op |-> "check_conflicts", request |-> request,
                     existing |-> existing,
                     out |-> check_conflicts(request, existing)]
        /\ UNCHANGED <<sysVars, cache, broker>>

CallSuggestAlternatives ==
    \E request \in EngineRequests, existing \in EngineAllocationLists,
       num_suggestions \in 0..MaxCount :
        /\ probe.op = "none"
        /\ probe' = [op |-> "suggest_alternatives", request |-> request,
                     existing |-> existing, num_suggestions |-> num_suggestions,
                     out |-> suggest_alternatives(request, existing, num_suggestions)]
        /\ UNCHANGED <<sysVars, cache, broker>>

CallEvaluatePriorityOverride ==
    \E request \in OverrideRequests, conflicts \in EngineConflictLists :
        /\ probe.op = "none"
        /\ probe' = [op |-> "evaluate_priority_override", request |-> request,
                     conflicts |-> conflicts,
                     out |-> evaluate_priority_override(request, conflicts)]
        /\ UNCHANGED <<sysVars, cache, broker>>

EngineNext ==
    CallCheckConflicts \/ CallSuggestAlternatives \/ CallEvaluatePriorityOverride

EngineSpec == Init /\ [][EngineNext]_vars

-----------------------------------------------------------------------------
(* Properties *)

\* The FLASH count request_deconfliction passed to the ROE engine for request id
FlashCountAt(id) ==
    Cardinality({j \in DOMAIN requests : j <= id /\ requests[j].priority = "FLASH"})

Compliant(id) == validate_request(requests[id], FlashCountAt(id)) = <<>>

LastDecision ==
    IF result.op = "request_deconfliction" /\ result.outcome = "returned"
    THEN {result.value}
    ELSE {}

\* C1: a request the policy engine reports a violation for is DENIED without
\* a conflict check: its stored decision (the one returned) has no conflicts,
\* no alternative frequencies and no authorization id, whatever the
\* allocation store holds.
C1_DeniedWithoutConflictCheck ==
    \A id \in DOMAIN requests :
        ~Compliant(id) =>
            /\ id \in DOMAIN responses
            /\ responses[id].status = "DENIED"
            /\ responses[id].conflict_details = <<>>
            /\ responses[id].alternative_frequencies = <<>>
            /\ responses[id].authorization_id = NoAuth
            /\ \A r \in LastDecision : r.request_id = id => r = responses[id]

\* A DENIED decision was just returned while the store holds an allocation
\* the conflict check would have reported against that request
C1_Witness ==
    \E r \in LastDecision :
        /\ r.status = "DENIED"
        /\ ~Compliant(r.request_id)
        /\ \E a \in DOMAIN allocations :
               ConflictsWith(requests[r.request_id], allocations[a]) # <<>>

\* C2: a stored decision carries an authorization id iff its status is
\* APPROVED.
C2_AuthorizationIffApproved ==
    \A id \in DOMAIN responses :
        /\ responses[id].status \in {"APPROVED", "DENIED", "CONFLICT", "PENDING"}
        /\ (responses[id].authorization_id # NoAuth)
               <=> (responses[id].status = "APPROVED")

C2_Witness ==
    /\ \E id \in DOMAIN responses : responses[id].status = "APPROVED"
    /\ \E id \in DOMAIN responses : responses[id].status = "CONFLICT"

OverrideApplies(request, conflicts) ==
    /\ request.priority \in {"FLASH", "IMMEDIATE"}
    /\ \A i \in 1..Len(conflicts) : 2 * conflicts[i].severity < SevScale

\* C3: the decision for a policy-compliant request is APPROVED exactly when
\* its conflict list is empty or the priority override applies to it, and
\* otherwise CONFLICT with no authorization id and with alternative
\* frequencies; it is never PENDING or DENIED.
C3_CompliantDecision ==
    \A id \in DOMAIN responses :
        Compliant(id) =>
            LET r == responses[id]
                ok == \/ r.conflict_details = <<>>
                      \/ OverrideApplies(requests[id], r.conflict_details)
            IN  /\ (r.status = "APPROVED") <=> ok
                /\ ~ok => /\ r.status = "CONFLICT"
                          /\ r.authorization_id = NoAuth
                          /\ r.alternative_frequencies # <<>>

\* A compliant FLASH request was just approved by override although the
\* conflict check reported conflicts against a committed allocation
C3_Witness ==
    \E r \in LastDecision :
        /\ Compliant(r.request_id)
        /\ allocations # <<>>
        /\ r.status = "APPROVED"
        /\ r.conflict_details # <<>>
        /\ r.justification = "High priority override"
        /\ r.authorization_id # NoAuth

\* C4: evaluate_priority_override returns true iff there is no conflict, or
\* the priority is FLASH or IMMEDIATE and every severity is strictly below
\* 0.5.
C4_OverrideRule ==
    probe.op = "evaluate_priority_override" =>
        (probe.out <=> \/ probe.conflicts = <<>>
                       \/ OverrideApplies(probe.request, probe.conflicts))

\* A FLASH request whose worst conflict has severity exactly 0.5 is refused
C4_Witness ==
    /\ probe.op = "evaluate_priority_override"
    /\ probe.request.priority = "FLASH"
    /\ \E i \in 1..Len(probe.conflicts) : 2 * probe.conflicts[i].severity = SevScale
    /\ \A i \in 1..Len(probe.conflicts) : 2 * probe.conflicts[i].severity <= SevScale
    /\ probe.out = FALSE

\* a is the authorization id of a stored APPROVED decision
ApprovedAuthorization(a) ==
    \E id \in DOMAIN responses :
        responses[id].status = "APPROVED" /\ responses[id].authorization_id = a

\* C5: allocate_frequency with an authorization id that is not the id of any
\* stored APPROVED decision returns (does not raise) a FAILED result with an
\* empty allocation id and a message, and leaves the allocation store
\* unchanged.
C5_UnauthorizedCommitFails ==
    [][\A input \in AllocateInputs, a \in AuthorizationInputs :
           (~ApprovedAuthorization(a) /\ allocate_frequency(input, a)) =>
               /\ result'.op = "allocate_frequency"
               /\ result'.outcome = "returned"
               /\ result'.value.status = "FAILED"
               /\ result'.value.allocation_id = NoAllocationId
               /\ result'.value.message # ""
               /\ allocations' = allocations
               /\ nextAllocId' = nextAllocId]_vars

\* A commit was just refused while the store holds an allocation, an APPROVED
\* decision and a decision that is not APPROVED
C5_Witness ==
    /\ result.op = "allocate_frequency"
    /\ result.value.status = "FAILED"
    /\ allocations # <<>>
    /\ \E id \in DOMAIN responses : responses[id].status = "APPROVED"
    /\ \E id \in DOMAIN responses : responses[id].status # "APPROVED"

\* C6: a commit with the authorization id of an APPROVED decision succeeds
\* however many commits already used that id: the id stays valid across every
\* step, and each successful commit adds exactly one allocation under a new
\* allocation id, leaving the allocations already stored as they were.
C6_AuthorizationReusable ==
    [][/\ \A a \in 1..MaxRequests :
              ApprovedAuthorization(a) => ApprovedAuthorization(a)'
       /\ \A input \in AllocateInputs, a \in AuthorizationInputs :
              (ApprovedAuthorization(a) /\ allocate_frequency(input, a)) =>
                  /\ result'.value.status = "SUCCESS"
                  /\ result'.value.allocation_id \notin DOMAIN allocations
                  /\ DOMAIN allocations' =
                         DOMAIN allocations \cup {result'.value.allocation_id}
                  /\ \A id \in DOMAIN allocations :
                         allocations'[id] = allocations[id]]_vars

\* One APPROVED decision backs two allocations committed at different times
C6_Witness ==
    /\ Cardinality({id \in DOMAIN responses :
                       responses[id].status = "APPROVED"}) = 1
    /\ result.op = "allocate_frequency"
    /\ result.value.status = "SUCCESS"
    /\ \E i, j \in DOMAIN allocations :
           i # j /\ allocations[i].start_time # allocations[j].start_time

\* C7: the decision for a compliant request depends on the committed
\* allocations only: while nothing is committed it is APPROVED with a fresh
\* authorization id, whatever decisions were approved before it, and those
\* earlier decisions stay APPROVED; so two decisions for the same spectrum are
\* both approved and can both be committed.
C7_DecisionIgnoresUncommittedApprovals ==
    [][\A id \in 1..MaxRequests :
           (/\ id \notin DOMAIN requests
            /\ id \in DOMAIN requests'
            /\ allocations = <<>>
            /\ Compliant(id)') =>
               /\ id \in DOMAIN responses'
               /\ responses'[id].status = "APPROVED"
               /\ ~ApprovedAuthorization(responses'[id].authorization_id)
               /\ \A a \in 1..MaxRequests :
                      ApprovedAuthorization(a) => ApprovedAuthorization(a)']_vars

SameSpectrum(x, y) ==
    /\ x.frequency = y.frequency
    /\ x.bandwidth_khz = y.bandwidth_khz
    /\ x.location = y.location
    /\ x.start_time = y.start_time

\* Two decisions for the same spectrum were approved with no conflict, and the
\* store now holds two allocations on that spectrum, each of which the
\* conflict check reports against the other's request
C7_Witness ==
    /\ now = 0
    /\ \E i, j \in DOMAIN responses :
           /\ i # j
           /\ SameSpectrum(requests[i], requests[j])
           /\ \A k \in {i, j} : /\ responses[k].status = "APPROVED"
                                /\ responses[k].conflict_details = <<>>
           /\ \E a, b \in DOMAIN allocations :
                  /\ a # b
                  /\ SameSpectrum(allocations[a], allocations[b])
                  /\ SameSpectrum(allocations[a], requests[i])
                  /\ ConflictsWith(requests[i], allocations[a]) # <<>>
                  /\ ConflictsWith(requests[j], allocations[b]) # <<>>

\* The request's window [start, start + duration) meets the allocation's
WindowsOverlap(request, allocation) ==
    /\ request.start_time < allocation.end_time
    /\ allocation.start_time < request.start_time + request.duration_minutes

\* The occupied bands (centre +/- half the bandwidth) meet
BandsOverlap(request, allocation) ==
    /\ 2 * request.frequency - request.bandwidth_khz
           < 2 * allocation.frequency + allocation.bandwidth_khz
    /\ 2 * allocation.frequency - allocation.bandwidth_khz
           < 2 * request.frequency + request.bandwidth_khz

\* C8: the decision for a compliant request lists a FREQUENCY conflict for
\* every allocation in the store at decision time whose window overlaps the
\* request's window and whose band overlaps the request's band, including an
\* allocation that starts after the request's start time and before its end.
C8_AllOverlappingAllocationsReported ==
    [][\A id \in 1..MaxRequests :
           (/\ id \notin DOMAIN responses
            /\ id \in DOMAIN responses'
            /\ Compliant(id)') =>
               \A a \in DOMAIN allocations :
                   (/\ WindowsOverlap(requests'[id], allocations[a])
                    /\ BandsOverlap(requests'[id], allocations[a])) =>
                       \E i \in 1..Len(responses'[id].conflict_details) :
                           LET c == responses'[id].conflict_details[i]
                           IN  /\ c.conflict_type = "FREQUENCY"
                               /\ c.conflicting_asset = allocations[a].asset_id]_vars

CoChannel(request, allocation) ==
    /\ Abs(request.frequency - allocation.frequency) < min_frequency_separation
    /\ calculate_distance(request.location, allocation.location)
           < min_geographic_separation

\* Received power above the threshold at the pair's distance
Interferes(request, allocation) ==
    _check_interference(request, allocation,
        calculate_distance(request.location, allocation.location)) # <<>>

TimeOverlapping(request, allocation) ==
    _time_overlaps(request.start_time,
                   request.start_time + request.duration_minutes,
                   allocation.start_time, allocation.end_time)

CountOf(conflicts, description) ==
    Cardinality({i \in 1..Len(conflicts) : conflicts[i].description = description})

\* C9 as stated: the interference check is independent of the co-channel
\* check, so the conflict list holds one interference conflict for every
\* time-overlapping allocation that interferes, co-channel or not.
C9_InterferenceIndependent ==
    probe.op = "check_conflicts" =>
        CountOf(probe.out, "Potential interference") =
            Cardinality({i \in 1..Len(probe.existing) :
                /\ TimeOverlapping(probe.request, probe.existing[i])
                /\ Interferes(probe.request, probe.existing[i])})

\* C9 amended: the interference check is applied to a time-overlapping pair
\* only when the co-channel check emits nothing, so a pair yields at most one
\* GEOGRAPHIC conflict and at most two conflicts in all: the list holds one
\* co-channel conflict per co-channel allocation and one interference
\* conflict per interfering allocation that is not co-channel.
C9_InterferenceOnlyWithoutCoChannel ==
    probe.op = "check_conflicts" =>
        /\ CountOf(probe.out, "Geographic conflict") =
               Cardinality({i \in 1..Len(probe.existing) :
                   /\ TimeOverlapping(probe.request, probe.existing[i])
                   /\ CoChannel(probe.request, probe.existing[i])})
        /\ CountOf(probe.out, "Potential interference") =
               Cardinality({i \in 1..Len(probe.existing) :
                   /\ TimeOverlapping(probe.request, probe.existing[i])
                   /\ ~CoChannel(probe.request, probe.existing[i])
                   /\ Interferes(probe.request, probe.existing[i])})
        /\ Len(probe.out) <= 2 * Len(probe.existing)

\* A single pair that is co-channel, interferes and overlaps in band yields
\* two conflicts: the frequency conflict and the co-channel conflict
C9_Witness ==
    /\ probe.op = "check_conflicts"
    /\ Len(probe.existing) = 1
    /\ TimeOverlapping(probe.request, probe.existing[1])
    /\ CoChannel(probe.request, probe.existing[1])
    /\ Interferes(probe.request, probe.existing[1])
    /\ Len(probe.out) = 2
    /\ probe.out[1].conflict_type = "FREQUENCY"
    /\ probe.out[2].description = "Geographic conflict"

\* C10: suggest_alternatives returns at most num_suggestions frequencies and
\* no frequency twice, also when the list is filled from the conflict-count
\* ranking.
C10_AtMostCountNoDuplicates ==
    probe.op = "suggest_alternatives" =>
        /\ Len(probe.out) <= probe.num_suggestions
        /\ \A i, j \in 1..Len(probe.out) : i # j => probe.out[i] # probe.out[j]

ConflictFree(request, frequency, existing) ==
    check_conflicts([request EXCEPT !.frequency = frequency], existing) = <<>>

\* Fewer conflict-free frequencies than asked for: the list starts with a
\* conflict-free frequency and is filled up to the count from the ranking
C10_Witness ==
    /\ probe.op = "suggest_alternatives"
    /\ probe.num_suggestions = MaxCount
    /\ Len(probe.out) = MaxCount
    /\ \E i \in 1..Len(probe.out) :
           ConflictFree(probe.request, probe.out[i], probe.existing)
    /\ \E i \in 1..Len(probe.out) :
           ~ConflictFree(probe.request, probe.out[i], probe.existing)

-----------------------------------------------------------------------------
(* Direct calls of ROEEngine.validate_request *)

RoeRequests ==
    [request_id : {1}, asset_rid : {"A1"},
     frequency : {80000, 88000, 88001, 121499, 121500, 243000, 406000,
                  406100, 406101},
     bandwidth_khz : {20}, power_dbm : {5000, 5001, 5501},
     location : {"L0", "LR", "LY", "LA"}, start_time : {0}, aware : {FALSE},
     duration_minutes : {2}, priority : {"ROUTINE", "FLASH"}]

CallValidateRequest ==
    \E request \in RoeRequests, current_flash_count \in 0..MaxFlash :
        /\ probe.op = "none"
        /\ probe' = [op |-> "validate_request", request |-> request,
                     current_flash_count |-> current_flash_count,
                     out |-> validate_request(request, current_flash_count)]
        /\ UNCHANGED <<sysVars, cache, broker>>

RoeNext == CallValidateRequest

RoeSpec == Init /\ [][RoeNext]_vars

InRestrictedBand(f) ==
    f = 121500 \/ f = 243000 \/ (406000 <= f /\ f <= 406100)

InRestrictedZone(location) == calculate_distance(location, "L0") <= 5000

OverPowerLimit(f, p) ==
    \/ 30000 <= f /\ f <= 88000 /\ p > 5000
    \/ 225000 <= f /\ f <= 400000 /\ p > 5500
    \/ 1000000 <= f /\ f <= 2000000 /\ p > 6000

FlashQuotaReached(priority, count) == priority = "FLASH" /\ count >= 5

Has(violations, kind) == \E i \in 1..Len(violations) : violations[i] = kind

\* C11: validate_request returns the empty list iff none of the four
\* conditions holds (restricted band with closed endpoints, restricted zone
\* with distance <= radius, power above the band's limit, FLASH with the
\* count at or above 5), and every condition that holds contributes its own
\* violation whatever the others do.
C11_ViolationsIndependent ==
    probe.op = "validate_request" =>
        LET r == probe.request
            band == InRestrictedBand(r.frequency)
            zone == InRestrictedZone(r.location)
            power == OverPowerLimit(r.frequency, r.power_dbm)
            flash == FlashQuotaReached(r.priority, probe.current_flash_count)
        IN  /\ (probe.out = <<>>) <=> ~(band \/ zone \/ power \/ flash)
            /\ Has(probe.out, "restricted band") <=> band
            /\ Has(probe.out, "restricted zone") <=> zone
            /\ Has(probe.out, "power limit") <=> power
            /\ Has(probe.out, "flash quota") <=> flash
            /\ Len(probe.out) =
                   Cardinality({k \in {"restricted band", "restricted zone",
                                       "power limit", "flash quota"} :
                                   Has(probe.out, k)})

\* All four conditions hold at once, the zone one at exactly its radius and
\* the FLASH one at exactly the quota, and four violations come back
C11_Witness ==
    /\ probe.op = "validate_request"
    /\ probe.request.frequency = 243000
    /\ probe.request.location = "LR"
    /\ probe.request.priority = "FLASH"
    /\ probe.current_flash_count = max_concurrent_flash
    /\ Len(probe.out) = 4

-----------------------------------------------------------------------------
(* The read-only tools and the store's removal operations, with the         *)
(* decide/commit tools, over a small set of requests                        *)

MalformedRequests ==
    {[BaseRequest EXCEPT !.frequency = 0],
     [BaseRequest EXCEPT !.frequency = -80000],
     [BaseRequest EXCEPT !.bandwidth_khz = 0],
     [BaseRequest EXCEPT !.duration_minutes = 0],
     [BaseRequest EXCEPT !.duration_minutes = -1],
     [BaseRequest EXCEPT !.start_time = Unparseable],
     [BaseRequest EXCEPT !.location = "LX"]}

OpsRequestInputs ==
    {BaseRequest, [BaseRequest EXCEPT !.frequency = 121500]}
    \cup MalformedRequests

BaseAllocate ==
    [asset_id |-> "A1", frequency |-> 80000, bandwidth_khz |-> 20,
     duration_minutes |-> 1, location |-> "LA", power_dbm |-> 4000,
     priority |-> "ROUTINE"]

MalformedAllocates ==
    {[BaseAllocate EXCEPT !.frequency = 0],
     [BaseAllocate EXCEPT !.bandwidth_khz = -20],
     [BaseAllocate EXCEPT !.duration_minutes = 0],
     [BaseAllocate EXCEPT !.location = "LX"]}

OpsAllocateInputs == {BaseAllocate} \cup MalformedAllocates

AreaInputs == {"AO1", "AO2"}

\* tools.py get_spectrum_plan.  start_aware/end_aware say whether the ISO
\* strings carry an offset ("Z" included); the store query compares start_dt
\* with every stored allocation, the filter compares both with every
\* allocation the query returned
get_spectrum_plan(ao_geojson, start_time, start_aware, end_time, end_aware) ==
    LET active == get_active_allocations(start_time)
        keep(alloc) == alloc.end_time >= start_time /\ alloc.start_time <= end_time
        filterRaises ==
            \E i \in 1..Len(active) :
                ~Comparable(active[i].aware, start_aware)
                \/ ~Comparable(active[i].aware, end_aware)
    IN  /\ result' =
               IF get_active_raises(start_aware) \/ filterRaises
               THEN Raised("get_spectrum_plan", "TypeError")
               ELSE Returned("get_spectrum_plan",
                             [ao_geojson |-> ao_geojson,
                              start_time |-> start_time,
                              end_time |-> end_time,
                              allocations |-> SelectSeq(active, keep)])
        /\ UNCHANGED <<now, requests, responses, allocations, nextAllocId,
                       nextAuthId, probe, cache, broker>>

\* AllocationStore.get_by_frequency_range at the clock reading (naive)
get_by_frequency_range(min_freq, max_freq, at_time) ==
    LET inRange(alloc) ==
            _frequencies_overlap(alloc.frequency, alloc.bandwidth_khz,
                                 min_freq, max_freq)
    IN  SelectSeq(get_active_allocations(at_time), inRange)

\* tools.py get_interference_report: one source per allocation the store
\* query returns (the power figures computed per source are left out)
get_interference_report(location, min_freq, max_freq) ==
    LET found == get_by_frequency_range(min_freq, max_freq, now)
    IN  /\ result' =
               IF get_active_raises(FALSE)
               THEN Raised("get_interference_report", "TypeError")
               ELSE Returned("get_interference_report",
                             [location |-> location,
                              interference_sources |->
                                  [i \in 1..Len(found) |->
                                      [source_id |-> found[i].asset_id,
                                       frequency |-> found[i].frequency]]])
        /\ UNCHANGED <<now, requests, responses, allocations, nextAllocId,
                       nextAuthId, probe, cache, broker>>

\* AllocationStore.remove
remove(allocation_id) ==
    /\ allocations' =
           [id \in DOMAIN allocations \ {allocation_id} |-> allocations[id]]
    /\ result' = Returned("remove",
                          [allocation_id |-> allocation_id,
                           removed |-> allocation_id \in DOMAIN allocations])
    /\ UNCHANGED <<now, requests, responses, nextAllocId, nextAuthId, probe, cache, broker>>

\* AllocationStore.clear_expired, given a naive clock reading
clear_expired(current_time) ==
    /\ allocations' = SweptStore(allocations, current_time)
    /\ result' = Returned("clear_expired",
                          [current_time |-> current_time,
                           removed |-> Cardinality(DOMAIN allocations)
                               - Cardinality(DOMAIN SweptStore(allocations,
                                                               current_time))])
    /\ UNCHANGED <<now, requests, responses, nextAllocId, nextAuthId, probe, cache, broker>>

OpsRequestDeconfliction ==
    \E input \in OpsRequestInputs : request_deconfliction(input)

OpsAllocateFrequency ==
    \E input \in OpsAllocateInputs, authorization_id \in AuthorizationInputs :
        allocate_frequency(input, authorization_id)

GetSpectrumPlan ==
    \E ao_geojson \in AreaInputs, start_time, end_time \in 0..MaxTime,
       start_aware, end_aware \in BOOLEAN :
        get_spectrum_plan(ao_geojson, start_time, start_aware, end_time, end_aware)

GetInterferenceReport ==
    \E location \in {"LA"}, range \in {<<79000, 81000>>, <<85000, 86000>>} :
        get_interference_report(location, range[1], range[2])

Remove == \E allocation_id \in 1..MaxAllocs : remove(allocation_id)

ClearExpired == \E current_time \in 0..(MaxTime + 1) : clear_expired(current_time)

OpsNext ==
    \/ OpsRequestDeconfliction
    \/ OpsAllocateFrequency
    \/ Tick
    \/ GetSpectrumPlan
    \/ GetInterferenceReport
    \/ Remove
    \/ ClearExpired

OpsSpec == Init /\ [][OpsNext]_vars

\* The stored allocations whose [start_time, end_time] meets [s, e]
InWindow(s, e) ==
    {allocations[id] : id \in {i \in DOMAIN allocations :
        allocations[i].start_time <= e /\ s <= allocations[i].end_time}}

\* C12: get_spectrum_plan returns exactly the stored allocations whose
\* [start_time, end_time] interval intersects the window asked for, whatever
\* the area argument.  (The store is as it was at the call as long as result
\* holds the plan: every operation that changes the store sets result.)
C12_PlanIsWindowContent ==
    (/\ result.op = "get_spectrum_plan"
     /\ result.outcome = "returned"
     /\ result.value.start_time <= result.value.end_time) =>
        SeqRange(result.value.allocations)
            = InWindow(result.value.start_time, result.value.end_time)

\* C13: request_deconfliction never raises for well-formed inputs: every call
\* returns a decision with status APPROVED, DENIED or CONFLICT, also when the
\* request's start time carries a UTC offset and the store holds allocations
\* committed by allocate_frequency.
C13_NeverRaises ==
    result.op = "request_deconfliction" =>
        /\ result.outcome = "returned"
        /\ result.value.status \in {"APPROVED", "DENIED", "CONFLICT"}

MalformedRequest(input) ==
    \/ input.frequency <= 0
    \/ input.bandwidth_khz <= 0
    \/ input.duration_minutes <= 0
    \/ input.start_time = Unparseable
    \/ input.location = "LX"

MalformedAllocate(input) ==
    \/ input.frequency <= 0
    \/ input.bandwidth_khz <= 0
    \/ input.duration_minutes <= 0
    \/ input.location = "LX"

\* C14: request_deconfliction with a frequency, bandwidth or duration <= 0,
\* an unparseable start time or a latitude out of range raises a validation
\* error and leaves the request store, the decisions and the allocation store
\* as they were; allocate_frequency with such values adds no allocation.
C14_MalformedInputChangesNothing ==
    [][/\ \A input \in OpsRequestInputs :
              (/\ MalformedRequest(input)
               /\ result'.op = "request_deconfliction"
               /\ request_deconfliction(input)) =>
                  /\ result'.outcome = "raised"
                  /\ result'.value.error \in {"ValidationError", "ValueError"}
                  /\ requests' = requests
                  /\ responses' = responses
                  /\ allocations' = allocations
       /\ \A input \in OpsAllocateInputs, a \in AuthorizationInputs :
              (/\ MalformedAllocate(input)
               /\ result'.op = "allocate_frequency"
               /\ allocate_frequency(input, a)) =>
                  allocations' = allocations]_vars

\* A malformed call was just refused with a validation error while the
\* stores hold a request, an APPROVED decision and an allocation
C14_Witness ==
    /\ result.outcome = "raised"
    /\ result.value.error = "ValidationError"
    /\ result.op = "request_deconfliction"
    /\ requests # <<>>
    /\ allocations # <<>>
    /\ \E id \in DOMAIN responses : responses[id].status = "APPROVED"


-----------------------------------------------------------------------------
(* Direct calls of check_conflicts on one request and one allocation *)

PairRequests ==
    [request_id : {1}, asset_rid : {"A1"}, frequency : {80000, 60100},
     bandwidth_khz : {20}, power_dbm : {4000}, location : {"LA"},
     start_time : {2}, aware : {FALSE}, duration_minutes : {2},
     priority : {"ROUTINE"}]

\* <<frequency, bandwidth_khz>>: the request's band, bands that overlap half of
\* it, touch it from either side, contain it or lie apart from it, and centre
\* frequencies just under 5 MHz and exactly 5 MHz away from 80.0 MHz and from
\* 60.1 MHz
PairBands ==
    {<<80000, 20>>, <<80010, 20>>, <<80020, 20>>, <<79980, 20>>,
     <<80030, 40>>, <<79970, 40>>, <<80000, 60>>, <<84999, 20>>,
     <<85000, 20>>, <<75000, 20>>, <<65100, 20>>}

\* Windows [start_time, start_time + length] around the request's [2, 4)
PairAllocations ==
    {[allocation_id |-> 1, asset_id |-> "A2", frequency |-> band[1],
      bandwidth_khz |-> band[2], location |-> l, start_time |-> s,
      end_time |-> s + length, aware |-> FALSE, priority |-> "ROUTINE",
      power_dbm |-> 4000] :
        band \in PairBands, l \in {"LA", "LB", "LD", "LC"},
        s \in 0..MaxStart, length \in 1..2}

CallCheckPair ==
    \E request \in PairRequests, allocation \in PairAllocations :
        /\ probe.op = "none"
        /\ probe' = [op |-> "check_conflicts", request |-> request,
                     existing |-> <<allocation>>,
                     out |-> check_conflicts(request, <<allocation>>)]
        /\ UNCHANGED <<sysVars, cache, broker>>

PairNext == CallCheckPair

PairSpec == Init /\ [][PairNext]_vars

\* C15: check_conflicts reports nothing against allocations whose window does
\* not overlap the request's window [start, start + duration), where overlap
\* means start < otherEnd and otherStart < end: windows that only touch give
\* no conflict, whatever the frequency and the location.
C15_NoConflictOutsideWindow ==
    probe.op = "check_conflicts" =>
        /\ \A i \in 1..Len(probe.existing) :
               TimeOverlapping(probe.request, probe.existing[i])
                   <=> WindowsOverlap(probe.request, probe.existing[i])
        /\ (\A i \in 1..Len(probe.existing) :
                ~WindowsOverlap(probe.request, probe.existing[i]))
               => probe.out = <<>>

\* An allocation on the request's frequency and at its location that starts
\* exactly when the request's window ends
C15_Witness ==
    /\ probe.op = "check_conflicts"
    /\ Len(probe.existing) = 1
    /\ probe.existing[1].frequency = probe.request.frequency
    /\ probe.existing[1].location = probe.request.location
    /\ probe.existing[1].start_time
           = probe.request.start_time + probe.request.duration_minutes
    /\ probe.out = <<>>

\* Width of the intersection of the two occupied bands, exact, in half-kHz
OverlapWidth(request, allocation) ==
    Min(2 * request.frequency + request.bandwidth_khz,
        2 * allocation.frequency + allocation.bandwidth_khz)
    - Max(2 * request.frequency - request.bandwidth_khz,
          2 * allocation.frequency - allocation.bandwidth_khz)

FrequencyConflicts(conflicts) ==
    LET isFrequency(c) == c.conflict_type = "FREQUENCY"
    IN  SelectSeq(conflicts, isFrequency)

\* C16: for a time-overlapping pair, check_conflicts emits a FREQUENCY
\* conflict iff the occupied bands overlap with positive width, so bands that
\* only touch give none; the severity is the overlap width divided by the
\* request's bandwidth, capped at 1, and lies in (0, 1].
C16_FrequencyConflictIffBandsOverlap ==
    (/\ probe.op = "check_conflicts"
     /\ Len(probe.existing) = 1
     /\ TimeOverlapping(probe.request, probe.existing[1])) =>
        LET found == FrequencyConflicts(probe.out)
            width == OverlapWidth(probe.request, probe.existing[1])
        IN  /\ found # <<>> <=> BandsOverlap(probe.request, probe.existing[1])
            /\ \A i \in 1..Len(found) :
                   /\ found[i].severity =
                          Min(SevScale, (width * SevScale)
                                            \div (2 * probe.request.bandwidth_khz))
                   /\ 0 < found[i].severity
                   /\ found[i].severity <= SevScale

CoChannelConflicts(conflicts) ==
    LET isCoChannel(c) == c.description = "Geographic conflict"
    IN  SelectSeq(conflicts, isCoChannel)

\* C17: for a time-overlapping pair, check_conflicts emits a co-channel
\* GEOGRAPHIC conflict iff the centre frequencies are strictly less than 5 MHz
\* apart and the great-circle distance is strictly below 50 km; its severity is
\* 1 - distance / 50, which is 1 at distance 0 and lies in (0, 1]; at exactly
\* 5 MHz or exactly 50 km no co-channel conflict is emitted.
C17_CoChannelIffCloseInBoth ==
    (/\ probe.op = "check_conflicts"
     /\ Len(probe.existing) = 1
     /\ TimeOverlapping(probe.request, probe.existing[1])) =>
        LET found == CoChannelConflicts(probe.out)
            distance == calculate_distance(probe.request.location,
                                           probe.existing[1].location)
        IN  /\ found # <<>> <=> CoChannel(probe.request, probe.existing[1])
            /\ \A i \in 1..Len(found) :
                   /\ found[i].conflict_type = "GEOGRAPHIC"
                   /\ found[i].severity =
                          SevScale - (distance * SevScale)
                                         \div min_geographic_separation
                   /\ distance = 0 => found[i].severity = SevScale
                   /\ 0 < found[i].severity
                   /\ found[i].severity <= SevScale

\* The candidate frequencies: centre - 10% and every 1 MHz step up to centre + 10%
Candidates(request) ==
    LET low == request.frequency - request.frequency \div 10
        high == request.frequency + request.frequency \div 10
    IN  {f \in low..high : (f - low) % step_khz = 0}

ConflictCount(request, frequency, existing) ==
    Len(check_conflicts([request EXCEPT !.frequency = frequency], existing))

\* C18: suggest_alternatives scans the candidates from centre - 10% to
\* centre + 10% in ascending 1 MHz steps and returns the conflict-free ones
\* first, in scan order; only when fewer than the count are conflict-free is
\* the rest filled from the scanned candidates by ascending conflict count,
\* ties in scan order, skipping those already chosen.  Every returned
\* frequency is a candidate inside the range.
C18_FreeFirstThenRanked ==
    probe.op = "suggest_alternatives" =>
        LET out == probe.out
            count == [f \in Candidates(probe.request) |->
                         ConflictCount(probe.request, f, probe.existing)]
            free == {f \in DOMAIN count : count[f] = 0}
            busy == DOMAIN count \ free
            nFree == Min(Cardinality(free), Len(out))
            rankedBefore(f, g) ==
                count[f] < count[g] \/ (count[f] = count[g] /\ f < g)
        IN  /\ \A i \in 1..Len(out) : out[i] \in DOMAIN count
            /\ Len(out) = Min(probe.num_suggestions, Cardinality(DOMAIN count))
            \* the conflict-free part: the lowest conflict-free candidates, ascending
            /\ \A i \in 1..nFree :
                   /\ out[i] \in free
                   /\ \A f \in free : f < out[i] => \E j \in 1..(i - 1) : out[j] = f
            /\ \A i, j \in 1..nFree : i < j => out[i] < out[j]
            \* the filled part: the best ranked of the other candidates, in rank order
            /\ \A i \in (nFree + 1)..Len(out) :
                   /\ out[i] \in busy
                   /\ \A f \in busy :
                          rankedBefore(f, out[i])
                              => \E j \in (nFree + 1)..(i - 1) : out[j] = f
            /\ \A i, j \in (nFree + 1)..Len(out) :
                   i < j => rankedBefore(out[i], out[j])

\* One conflict-free candidate, then two candidates of equal conflict count in
\* scan order, passing over a candidate of higher count scanned before the last
C18_Witness ==
    /\ probe.op = "suggest_alternatives"
    /\ Len(probe.out) = 3
    /\ ConflictFree(probe.request, probe.out[1], probe.existing)
    /\ ConflictCount(probe.request, probe.out[2], probe.existing) > 0
    /\ ConflictCount(probe.request, probe.out[2], probe.existing)
           = ConflictCount(probe.request, probe.out[3], probe.existing)
    /\ probe.out[2] < probe.out[3]
    /\ \E f \in Candidates(probe.request) :
           /\ f < probe.out[3]
           /\ ConflictCount(probe.request, f, probe.existing)
                  > ConflictCount(probe.request, probe.out[3], probe.existing)

\* The stored allocations that have ended by time t
Expired(t) == {id \in DOMAIN allocations : allocations[id].end_time <= t}

\* C19: clear_expired(current_time) removes exactly the allocations whose
\* end_time <= current_time, leaves the others in the store as they were and
\* returns the number removed; a second sweep with the same current_time
\* removes nothing.
C19_SweepRemovesExactlyExpired ==
    [][(result'.op = "clear_expired" /\ now' = now) =>
           LET t == result'.value.current_time
           IN  /\ DOMAIN allocations' = DOMAIN allocations \ Expired(t)
               /\ \A id \in DOMAIN allocations' :
                      allocations'[id] = allocations[id]
               /\ result'.value.removed = Cardinality(Expired(t))
               /\ (result.op = "clear_expired" /\ result.value.current_time = t)
                      => /\ result'.value.removed = 0
                         /\ allocations' = allocations]_vars

\* A sweep has removed the allocation that ended at the sweep time and kept
\* one that ends later
C19_Witness ==
    /\ result.op = "clear_expired"
    /\ result.value.removed = 1
    /\ result.value.current_time = MaxTime
    /\ \E id \in DOMAIN allocations :
           allocations[id].end_time > result.value.current_time

\* The call that has just returned is an allocate_frequency with status SUCCESS
Committed(r) ==
    /\ r.op = "allocate_frequency"
    /\ r.outcome = "returned"
    /\ r.value.status = "SUCCESS"

\* C20: allocations are created only by a successful commit and removed only
\* by remove or clear_expired.  request_deconfliction (whatever it returns or
\* raises), get_spectrum_plan, get_interference_report and an
\* allocate_frequency that does not return SUCCESS leave the allocation store
\* unchanged; an allocate_frequency that returns SUCCESS adds exactly one
\* allocation under a new id and leaves every stored allocation as it was.
C20_StoreChangesOnlyByCommitAndRemoval ==
    [][LET added ==
               /\ Committed(result')
               /\ result'.value.allocation_id \notin DOMAIN allocations
               /\ DOMAIN allocations' =
                      DOMAIN allocations \cup {result'.value.allocation_id}
               /\ \A id \in DOMAIN allocations :
                      allocations'[id] = allocations[id]
           dropped ==
               /\ result'.op \in {"remove", "clear_expired"}
               /\ DOMAIN allocations' \subseteq DOMAIN allocations
               /\ \A id \in DOMAIN allocations' :
                      allocations'[id] = allocations[id]
       IN  /\ allocations' # allocations => added \/ dropped
           /\ (now' = now /\ Committed(result')) => added
           /\ (/\ now' = now
               /\ result'.op \in {"request_deconfliction", "get_spectrum_plan",
                                  "get_interference_report", "allocate_frequency"}
               /\ ~Committed(result')) => allocations' = allocations]_vars

\* A successful commit for an asset that already holds an allocation: the
\* store holds both
C20_Witness ==
    /\ Committed(result)
    /\ result.value.allocation_id \in DOMAIN allocations
    /\ \E id \in DOMAIN allocations :
           /\ id # result.value.allocation_id
           /\ allocations[id].asset_id
                  = allocations[result.value.allocation_id].asset_id


-----------------------------------------------------------------------------
(* Requests for several start times and commits whose parameters the caller *)
(* chooses freely                                                           *)

CommitRequestInputs ==
    {[BaseRequest EXCEPT !.start_time = s] : s \in 0..MaxTime}

CommitAllocateInputs ==
    {[asset_id |-> "A1", frequency |-> f, bandwidth_khz |-> 20,
      duration_minutes |-> d, location |-> "LA", power_dbm |-> 4000,
      priority |-> "ROUTINE"] : <<f, d>> \in {<<80000, 1>>, <<85000, 2>>}}

CommitRequestDeconfliction ==
    \E input \in CommitRequestInputs : request_deconfliction(input)

CommitAllocateFrequency ==
    \E input \in CommitAllocateInputs, authorization_id \in AuthorizationInputs :
        allocate_frequency(input, authorization_id)

CommitNext == CommitRequestDeconfliction \/ CommitAllocateFrequency \/ Tick

CommitSpec == Init /\ [][CommitNext]_vars

\* C21: an allocate_frequency that returns SUCCESS stamps the stored
\* allocation with start_time = the clock reading at the commit and
\* end_time = start_time + duration_minutes, whatever the start time of the
\* approved request, and returns expires_at equal to that end_time.
C21_CommitStampedWithClock ==
    [][\A input \in CommitAllocateInputs, authorization_id \in AuthorizationInputs :
           (Committed(result') /\ allocate_frequency(input, authorization_id)) =>
               LET stored == allocations'[result'.value.allocation_id]
               IN  /\ stored.start_time = now
                   /\ stored.end_time = now + input.duration_minutes
                   /\ result'.value.expires_at = stored.end_time]_vars

\* A commit made after the clock has advanced: the only approved request
\* started earlier than the allocation that was stored for it
C21_Witness ==
    /\ Committed(result)
    /\ Cardinality(DOMAIN responses) = 1
    /\ \A id \in DOMAIN responses :
           /\ responses[id].status = "APPROVED"
           /\ requests[id].start_time
                  < allocations[result.value.allocation_id].start_time
    /\ result.value.expires_at
           = allocations[result.value.allocation_id].end_time

\* C22: every request_deconfliction call with well-formed inputs adds exactly
\* one request record and exactly one decision keyed by that request's id,
\* whatever the decision, and leaves the earlier records and decisions as
\* they were; the response store holds at most one decision per request id.
C22_OneRecordAndOneDecisionPerCall ==
    [][\A input \in RequestInputs :
           (request_deconfliction(input) /\ RequestError(input) = "none") =>
               \E id \in DOMAIN requests' \ DOMAIN requests :
                   /\ DOMAIN requests' = DOMAIN requests \cup {id}
                   /\ DOMAIN responses' = DOMAIN responses \cup {id}
                   /\ id \notin DOMAIN responses
                   /\ responses'[id].request_id = id
                   /\ responses'[id].status \in {"APPROVED", "DENIED", "CONFLICT"}
                   /\ \A old \in DOMAIN requests : requests'[old] = requests[old]
                   /\ \A old \in DOMAIN responses : responses'[old] = responses[old]]_vars


-----------------------------------------------------------------------------
(* LRUCache (llm_abstraction/cache.py).  A key stands for the SHA-256 hash  *)
(* of the request parameters.  order is the key order of the OrderedDict,   *)
(* oldest first.  calls, used and puts are not fields of the cache: they    *)
(* record the calls made, the index of the last use of each key and the     *)
(* last put under each key.                                                 *)

CacheKeys == {"k1", "k2", "k3"}
CacheResponses == {"r1", "r2"}
NoResponse == "None"

\* ttl_seconds if ttl_seconds is not None else self.default_ttl_seconds
EffectiveTtl(ttl_seconds, default_ttl_seconds) ==
    IF ttl_seconds # NoTtl THEN ttl_seconds ELSE default_ttl_seconds

\* Variant: an entry expires as soon as its age reaches its TTL
is_expired_AtTtl(entry, clock) == clock - entry.timestamp >= entry.ttl_seconds

\* CacheEntry.is_expired
is_expired(entry, clock) == clock - entry.timestamp > entry.ttl_seconds

\* The sequence s without its element k
Without(s, k) ==
    LET keep(x) == x # k IN SelectSeq(s, keep)

\* f without the key k
Drop(f, k) == [x \in DOMAIN f \ {k} |-> f[x]]

Called(c, op, key, out) ==
    [c EXCEPT !.calls = [@ EXCEPT ![op] = @ + 1],
              !.last = [op |-> op, key |-> key, out |-> out]]

\* configure_global_cache: a new LRUCache
LRUCacheInit(max_size, default_ttl_seconds) ==
    [constructed |-> TRUE, max_size |-> max_size,
     default_ttl_seconds |-> default_ttl_seconds,
     order |-> <<>>, entries |-> <<>>,
     stats |-> [hits |-> 0, misses |-> 0, evictions |-> 0, expirations |-> 0],
     clock |-> 0,
     calls |-> [get |-> 0, put |-> 0], used |-> <<>>, puts |-> <<>>,
     last |-> [op |-> "none", key |-> "none", out |-> NoResponse]]

\* LRUCache.get
cache_get(c, key) ==
    IF key \notin DOMAIN c.entries
    THEN Called([c EXCEPT !.stats.misses = @ + 1], "get", key, NoResponse)
    ELSE IF is_expired(c.entries[key], c.clock)
    THEN Called([c EXCEPT !.stats.expirations = @ + 1,
                          !.order = Without(@, key),
                          !.entries = Drop(@, key)],
                "get", key, NoResponse)
    ELSE Called([c EXCEPT !.order = Append(Without(@, key), key),
                          !.entries[key].hits = @ + 1,
                          !.stats.hits = @ + 1,
                          !.used = (key :> (c.calls.get + c.calls.put + 1)) @@ @],
                "get", key, c.entries[key].response)

\* self._cache[key] = entry: a key that is present keeps its place in the
\* OrderedDict, a new key goes to the end
StoreOrder(order, key) ==
    IF \E i \in 1..Len(order) : order[i] = key
    THEN order
    ELSE Append(order, key)

\* LRUCache.put
cache_put(c, key, response, ttl_seconds) ==
    LET evict == Len(c.order) >= c.max_size /\ key \notin DOMAIN c.entries
        evicted_key == Head(c.order)
        order == IF evict THEN Tail(c.order) ELSE c.order
        entries == IF evict THEN Drop(c.entries, evicted_key) ELSE c.entries
        entry == [response |-> response, timestamp |-> c.clock,
                  ttl_seconds |-> EffectiveTtl(ttl_seconds, c.default_ttl_seconds),
                  hits |-> 0]
    IN  Called([c EXCEPT !.stats.evictions = IF evict THEN @ + 1 ELSE @,
                         !.order = StoreOrder(order, key),
                         !.entries = (key :> entry) @@ entries,
                         !.used = (key :> (c.calls.get + c.calls.put + 1)) @@ @,
                         !.puts = (key :> [response |-> response,
                                           timestamp |-> c.clock,
                                           ttl_seconds |-> ttl_seconds]) @@ @],
               "put", key, NoResponse)

CacheUnchanged ==
    UNCHANGED <<now, requests, responses, allocations, nextAllocId, nextAuthId,
                result, probe, broker>>

ConfigureGlobalCache ==
    \E max_size \in 1..MaxSize, default_ttl_seconds \in {1} :
        /\ ~cache.constructed
        /\ cache' = LRUCacheInit(max_size, default_ttl_seconds)
        /\ CacheUnchanged

CacheGet ==
    \E key \in CacheKeys :
        /\ cache.constructed
        /\ cache.calls.get + cache.calls.put < MaxCalls
        /\ cache' = cache_get(cache, key)
        /\ CacheUnchanged

CachePut ==
    \E key \in CacheKeys, response \in CacheResponses, ttl_seconds \in {NoTtl, 0} :
        /\ cache.constructed
        /\ cache.calls.get + cache.calls.put < MaxCalls
        /\ cache' = cache_put(cache, key, response, ttl_seconds)
        /\ CacheUnchanged

\* Time passes between calls
CacheTick ==
    /\ cache.constructed
    /\ cache.clock < MaxClock
    /\ cache' = [cache EXCEPT !.clock = @ + 1]
    /\ CacheUnchanged

CacheNext == ConfigureGlobalCache \/ CacheGet \/ CachePut \/ CacheTick

CacheSpec == Init /\ [][CacheNext]_vars

\* The step is a call of put (resp. get) on the cache
IsPut == cache.constructed /\ cache'.calls.put = cache.calls.put + 1
IsGet == cache.constructed /\ cache'.calls.get = cache.calls.get + 1

\* C23: with max_size >= 1 the cache never holds more than max_size entries;
\* a put of a new key into a full cache evicts exactly one entry, the least
\* recently used one, where a successful get of a key and a put of that key
\* both count as a use, and adds one to evictions; a put of a key that is
\* present evicts nothing.
C23_BoundedAndEvictsLeastRecentlyUsed ==
    [][/\ cache'.constructed =>
              Cardinality(DOMAIN cache'.entries) <= cache'.max_size
       /\ IsPut =>
              LET key == cache'.last.key
                  present == DOMAIN cache.entries
                  full == Cardinality(present) >= cache.max_size
              IN  IF key \in present
                  THEN /\ DOMAIN cache'.entries = present
                       /\ cache'.stats.evictions = cache.stats.evictions
                  ELSE IF full
                  THEN /\ \E victim \in present :
                              /\ DOMAIN cache'.entries =
                                     (present \ {victim}) \cup {key}
                              /\ \A other \in present :
                                     cache.used[victim] <= cache.used[other]
                       /\ cache'.stats.evictions = cache.stats.evictions + 1
                  ELSE /\ DOMAIN cache'.entries = present \cup {key}
                       /\ cache'.stats.evictions = cache.stats.evictions]_vars

\* The age of the last put under key exceeds the TTL that put asked for
LastPutExpired(c, key) ==
    c.clock - c.puts[key].timestamp
        > EffectiveTtl(c.puts[key].ttl_seconds, c.default_ttl_seconds)

\* C24: get never returns the response of an entry whose age exceeds its TTL
\* (the ttl_seconds given to put, else the cache default): such a get returns
\* None, removes the entry and adds one to expirations; a get within the TTL
\* returns exactly the response last put under the key.
C24_GetHonoursTtl ==
    [][IsGet =>
           LET key == cache'.last.key
               out == cache'.last.out
           IN  /\ out # NoResponse =>
                      /\ key \in DOMAIN cache.puts
                      /\ out = cache.puts[key].response
                      /\ ~LastPutExpired(cache, key)
               /\ (key \in DOMAIN cache.entries /\ LastPutExpired(cache, key)) =>
                      /\ out = NoResponse
                      /\ key \notin DOMAIN cache'.entries
                      /\ cache'.stats.expirations = cache.stats.expirations + 1
               /\ (key \in DOMAIN cache.entries /\ ~LastPutExpired(cache, key)) =>
                      /\ out = cache.puts[key].response
                      /\ key \in DOMAIN cache'.entries
                      /\ cache'.stats.expirations = cache.stats.expirations]_vars

\* A get has found an entry put with ttl_seconds = 0 after the clock moved
\* on: it returned None and removed the entry
C24_Witness ==
    /\ cache.constructed
    /\ cache.last.op = "get"
    /\ cache.last.out = NoResponse
    /\ cache.stats.expirations = 1
    /\ cache.last.key \in DOMAIN cache.puts
    /\ cache.puts[cache.last.key].ttl_seconds = 0
    /\ cache.last.key \notin DOMAIN cache.entries
    /\ cache.stats.evictions = 0

\* C25: every get adds one to exactly one of hits (a response is returned)
\* and misses (None is returned), so total_requests = hits + misses is the
\* number of get calls made.
C25_EveryGetIsHitOrMiss ==
    [][IsGet =>
           /\ cache'.last.out # NoResponse =>
                  /\ cache'.stats.hits = cache.stats.hits + 1
                  /\ cache'.stats.misses = cache.stats.misses
           /\ cache'.last.out = NoResponse =>
                  /\ cache'.stats.misses = cache.stats.misses + 1
                  /\ cache'.stats.hits = cache.stats.hits
           /\ cache'.stats.hits + cache'.stats.misses = cache'.calls.get]_vars

\* ---------------------------------------------------------------------
\* MessageBroker (src/broker/broker.py)
\* ---------------------------------------------------------------------

Topics == {"plan", "plan.response"}
Senders == {"a", "b"}
NoFilter == "None"

\* What a subscription's callback and filter_func do when called: no
\* callback, one that returns, one that raises; no filter, one that accepts,
\* one that rejects, one that raises
SubscriptionKinds ==
    {[callback |-> "returns", filter_func |-> NoFilter],
     [callback |-> "returns", filter_func |-> "accepts"],
     [callback |-> "returns", filter_func |-> "rejects"],
     [callback |-> "returns", filter_func |-> "raises"],
     [callback |-> "raises", filter_func |-> NoFilter],
     [callback |-> NoFilter, filter_func |-> NoFilter]}

\* The outcome of the call a step makes: whether it raised, the id it is
\* about (message, subscription, correlation id; the limit of get_history),
\* the list it returned and whether it found what it looked for
Outcome(b, op, raised, message, messages, found) ==
    [b EXCEPT !.ops = @ + 1,
              !.last = [op |-> op, raised |-> raised, message |-> message,
                        messages |-> messages, found |-> found]]

\* MessageBroker.__init__
MessageBrokerInit(max_history) ==
    [constructed |-> TRUE, max_history |-> max_history,
     subscriptions |-> <<>>, history |-> <<>>, pending |-> <<>>,
     nextMessage |-> 1, nextSubscription |-> 1, nextCorrelation |-> 1,
     published |-> <<>>, delivered |-> <<>>, sent |-> <<>>, inflight |-> {},
     ops |-> 0,
     last |-> [op |-> "none", raised |-> FALSE, message |-> NoMessage,
               messages |-> <<>>, found |-> FALSE]]

\* self._message_history.append(message), then pop(0) when over max_history
AppendHistory(history, message, max_history) ==
    LET appended == Append(history, message)
    IN  IF Len(appended) > max_history THEN Tail(appended) ELSE appended

\* The subscriptions of the message's topic, in subscription order
TopicSubscriptions(subscriptions, topic) ==
    LET on_topic(sub) == sub.topic = topic IN SelectSeq(subscriptions, on_topic)

\* _deliver_message scans the topic's subscriptions in order; a filter_func
\* that raises ends the scan and the exception leaves _deliver_message
FilterRaisesAt(subs) ==
    LET raising == {i \in 1..Len(subs) : subs[i].filter_func = "raises"}
    IN  IF raising = {} THEN Len(subs) + 1
        ELSE CHOOSE i \in raising : \A j \in raising : i <= j

\* The subscriptions for which a delivery task is created: scanned, not
\* rejected by their filter, with a callback
DeliveryTasks(subs) ==
    LET scanned == SubSeq(subs, 1, FilterRaisesAt(subs) - 1)
        task(sub) == sub.filter_func # "rejects" /\ sub.callback # NoFilter
    IN  SelectSeq(scanned, task)

\* The deliveries of a message: one call of the callback per task (tasks
\* created before a filter raised still run on the event loop)
Deliveries(subs, message) ==
    [i \in 1..Len(DeliveryTasks(subs)) |->
        [subscription |-> DeliveryTasks(subs)[i].id, message |-> message.id]]

\* MessageBroker.publish with _deliver_message and _safe_callback
publish(b, type, topic, sender, correlation_id) ==
    LET message == [id |-> b.nextMessage, type |-> type, topic |-> topic,
                    sender |-> sender, correlation_id |-> correlation_id]
        subs == TopicSubscriptions(b.subscriptions, topic)
    IN  [b EXCEPT !.nextMessage = @ + 1,
                  !.history = AppendHistory(@, message, b.max_history),
                  !.published = Append(@, message),
                  !.delivered = @ \o Deliveries(subs, message),
                  !.last = [op |-> "publish",
                            raised |-> FilterRaisesAt(subs) <= Len(subs),
                            message |-> message.id,
                            messages |-> <<>>, found |-> FALSE]]

\* MessageBroker.subscribe
subscribe(b, topic, kind) ==
    Outcome([b EXCEPT !.nextSubscription = @ + 1,
                      !.subscriptions =
                          Append(@, [id |-> b.nextSubscription, topic |-> topic,
                                     callback |-> kind.callback,
                                     filter_func |-> kind.filter_func])],
            "subscribe", FALSE, NoMessage, <<>>, FALSE)

\* MessageBroker.unsubscribe
unsubscribe(b, subscription_id) ==
    LET other(sub) == sub.id # subscription_id
        found == \E i \in 1..Len(b.subscriptions) :
                     b.subscriptions[i].id = subscription_id
    IN  Outcome([b EXCEPT !.subscriptions = SelectSeq(@, other)],
                "unsubscribe", FALSE, subscription_id, <<>>, found)

\* messages[-limit:]
LastSlice(messages, limit) ==
    IF limit = 0 \/ limit >= Len(messages) THEN messages
    ELSE SubSeq(messages, Len(messages) - limit + 1, Len(messages))

\* MessageBroker.get_history
get_history(b, topic, sender, limit) ==
    LET by_topic(m) == topic = NoFilter \/ m.topic = topic
        by_sender(m) == sender = NoFilter \/ m.sender = sender
        messages == SelectSeq(SelectSeq(b.history, by_topic), by_sender)
    IN  Outcome(b, "get_history", FALSE, limit, LastSlice(messages, limit), FALSE)

\* MessageBroker.request up to the wait: the pending future is registered,
\* then the request is published; if publish raises, the exception leaves
\* request before the try whose finally removes the pending entry
request_send(b, topic, sender) ==
    LET correlation_id == b.nextCorrelation
        registered == [b EXCEPT !.nextCorrelation = @ + 1,
                                !.pending = (correlation_id :>
                                    [done |-> FALSE, result |-> NoMessage]) @@ @,
                                !.sent = (correlation_id :> topic) @@ @]
        after == publish(registered, "request", topic, sender, correlation_id)
    IN  Outcome([after EXCEPT !.inflight =
                     IF after.last.raised THEN @ ELSE @ \union {correlation_id}],
                "request", after.last.raised, correlation_id, <<>>, FALSE)

\* wait_for returns the future's result; finally pops the pending entry
request_return(b, correlation_id) ==
    Outcome([b EXCEPT !.pending = Drop(@, correlation_id),
                      !.inflight = @ \ {correlation_id}],
            "request_return", FALSE, b.pending[correlation_id].result,
            <<>>, TRUE)

\* wait_for raises asyncio.TimeoutError; finally pops the pending entry
request_timeout(b, correlation_id) ==
    Outcome([b EXCEPT !.pending = Drop(@, correlation_id),
                      !.inflight = @ \ {correlation_id}],
            "request_timeout", TRUE, correlation_id, <<>>, FALSE)

\* MessageBroker.respond
respond(b, topic, correlation_id) ==
    IF correlation_id = NoCorrelation
    THEN Outcome(b, "respond", TRUE, NoMessage, <<>>, FALSE)
    ELSE LET after == publish(b, "response", topic \o ".response", "r",
                              correlation_id)
             resolves == /\ ~after.last.raised
                         /\ correlation_id \in DOMAIN after.pending
                         /\ ~after.pending[correlation_id].done
         IN  Outcome([after EXCEPT !.pending =
                          IF resolves
                          THEN [@ EXCEPT ![correlation_id] =
                                    [done |-> TRUE, result |-> after.last.message]]
                          ELSE @],
                     "respond", after.last.raised, after.last.message,
                     <<>>, resolves)

BrokerUnchanged ==
    UNCHANGED <<now, requests, responses, allocations, nextAllocId, nextAuthId,
                result, probe, cache>>

BrokerReady == broker.constructed /\ broker.ops < MaxOps

NewMessageBroker ==
    \E max_history \in 1..MaxHistory :
        /\ ~broker.constructed
        /\ broker' = MessageBrokerInit(max_history)
        /\ BrokerUnchanged

Publish ==
    \E topic \in Topics, sender \in Senders :
        /\ BrokerReady
        /\ broker' = Outcome(publish(broker, "broadcast", topic, sender,
                                     NoCorrelation),
                             "publish",
                             publish(broker, "broadcast", topic, sender,
                                     NoCorrelation).last.raised,
                             broker.nextMessage, <<>>, FALSE)
        /\ BrokerUnchanged

Subscribe ==
    \E topic \in Topics, kind \in SubscriptionKinds :
        /\ BrokerReady
        /\ broker.nextSubscription <= MaxSubscriptions
        /\ broker' = subscribe(broker, topic, kind)
        /\ BrokerUnchanged

Unsubscribe ==
    \E subscription_id \in 1..MaxSubscriptions :
        /\ BrokerReady
        /\ broker' = unsubscribe(broker, subscription_id)
        /\ BrokerUnchanged

GetHistory ==
    \E topic \in Topics \union {NoFilter}, sender \in Senders \union {NoFilter},
       limit \in 0..MaxHistory :
        /\ BrokerReady
        /\ broker' = get_history(broker, topic, sender, limit)
        /\ BrokerUnchanged

RequestSend ==
    \E sender \in {"a"} :
        /\ BrokerReady
        /\ broker' = request_send(broker, "plan", sender)
        /\ BrokerUnchanged

RequestReturn ==
    /\ broker.constructed
    /\ \E correlation_id \in broker.inflight :
           /\ broker.pending[correlation_id].done
           /\ broker' = request_return(broker, correlation_id)
    /\ BrokerUnchanged

RequestTimeout ==
    /\ broker.constructed
    /\ \E correlation_id \in broker.inflight :
           /\ ~broker.pending[correlation_id].done
           /\ broker' = request_timeout(broker, correlation_id)
    /\ BrokerUnchanged

\* A responder answers a request it received, or a message that carries no
\* correlation id
Respond ==
    /\ BrokerReady
    /\ \E correlation_id \in DOMAIN broker.sent \union {NoCorrelation} :
           broker' = respond(broker,
                             IF correlation_id = NoCorrelation THEN "plan"
                             ELSE broker.sent[correlation_id],
                             correlation_id)
    /\ BrokerUnchanged

BrokerNext ==
    \/ NewMessageBroker
    \/ Publish
    \/ Subscribe
    \/ Unsubscribe
    \/ GetHistory
    \/ RequestSend
    \/ RequestReturn
    \/ RequestTimeout
    \/ Respond

BrokerSpec == Init /\ [][BrokerNext]_vars

\* The last k elements of s, oldest first
MostRecent(s, k) ==
    LET n == IF k < Len(s) THEN k ELSE Len(s)
    IN  [i \in 1..n |-> s[Len(s) - n + i]]

\* The messages of s on the topic and from the sender asked for
Matching(s, topic, sender) ==
    LET matches(m) == /\ topic \in {NoFilter, m.topic}
                      /\ sender \in {NoFilter, m.sender}
    IN  SelectSeq(s, matches)

\* C26: the history is the last min(n, max_history) of the n messages
\* published, in publish order, and get_history(limit=k) returns at most k
\* messages: the k most recent retained messages matching the topic/sender
\* filters, oldest first.
C26_HistoryBoundedAndLimited ==
    [][broker.constructed =>
           /\ broker'.history = MostRecent(broker'.published, broker.max_history)
           /\ \A topic \in Topics \union {NoFilter},
                 sender \in Senders \union {NoFilter}, limit \in 0..MaxHistory :
                  broker' = get_history(broker, topic, sender, limit) =>
                      /\ Len(broker'.last.messages) <= limit
                      /\ broker'.last.messages =
                             MostRecent(Matching(broker.history, topic, sender),
                                        limit)]_vars

\* The step publishes a message
Publishes == broker.constructed /\ Len(broker'.published) = Len(broker.published) + 1

\* The ids of the subscriptions registered in b
Registered(b) == {b.subscriptions[i].id : i \in 1..Len(b.subscriptions)}

\* The subscriptions of b on the topic that have a callback and whose filter
\* (if any) accepts the message
Accepting(b, topic) ==
    {b.subscriptions[i].id : i \in
        {j \in 1..Len(b.subscriptions) :
            /\ b.subscriptions[j].topic = topic
            /\ b.subscriptions[j].callback # NoFilter
            /\ b.subscriptions[j].filter_func \in {NoFilter, "accepts"}}}

\* Some subscription of b that the message must reach has a raising callback
SomeCallbackRaises(b, topic) ==
    \E i \in 1..Len(b.subscriptions) :
        /\ b.subscriptions[i].id \in Accepting(b, topic)
        /\ b.subscriptions[i].callback = "raises"

\* C27: publish delivers the message exactly once to the callback of every
\* subscription registered on its topic at publish time whose filter accepts
\* it, and to no other subscription; once unsubscribe has returned True for
\* a subscription it is no longer registered, so no later message reaches
\* it; a callback that raises neither keeps the message from the other
\* subscribers nor makes publish fail.
C27_DeliveredExactlyToAcceptingSubscribers ==
    [][/\ Publishes =>
              LET message == broker'.published[Len(broker'.published)]
                  new == SubSeq(broker'.delivered, Len(broker.delivered) + 1,
                                Len(broker'.delivered))
                  to(id) == {i \in 1..Len(new) : new[i].subscription = id}
              IN  /\ \A i \in 1..Len(new) :
                         /\ new[i].message = message.id
                         /\ new[i].subscription \in Accepting(broker, message.topic)
                  /\ \A id \in Accepting(broker, message.topic) :
                         Cardinality(to(id)) = 1
                  /\ SomeCallbackRaises(broker, message.topic) =>
                         ~broker'.last.raised
       /\ (broker.constructed /\ broker'.last.op = "unsubscribe"
              /\ broker'.ops = broker.ops + 1) =>
              /\ broker'.last.found <=> broker'.last.message \in Registered(broker)
              /\ broker'.last.found => broker'.last.message \notin Registered(broker')
      ]_vars

\* The step is the call named op
BrokerCall(op) ==
    /\ broker.constructed
    /\ broker'.ops = broker.ops + 1
    /\ broker'.last.op = op

\* The RESPONSE messages published for the correlation id
ResponsesFor(b, correlation_id) ==
    {i \in 1..Len(b.published) :
        /\ b.published[i].type = "response"
        /\ b.published[i].correlation_id = correlation_id}

\* C28: request returns the RESPONSE message that respond published for its
\* correlation id and raises a timeout only when no respond has completed
\* it; either way its pending entry is removed, so _pending_responses holds
\* entries only for requests still in flight; a respond that arrives after
\* the timeout neither raises nor completes any other request.
C28_RequestResponsePairing ==
    [][broker.constructed =>
       /\ DOMAIN broker'.pending \subseteq broker'.inflight
       /\ BrokerCall("request_return") =>
              \E correlation_id \in broker.inflight \ broker'.inflight :
                  /\ \E i \in ResponsesFor(broker, correlation_id) :
                         broker.published[i].id = broker'.last.message
                  /\ correlation_id \notin DOMAIN broker'.pending
       /\ BrokerCall("request_timeout") =>
              /\ ResponsesFor(broker, broker'.last.message) = {}
              /\ broker'.last.message \notin DOMAIN broker'.pending
       /\ \A correlation_id \in DOMAIN broker.sent :
              (/\ BrokerCall("respond")
               /\ broker' = respond(broker, broker.sent[correlation_id],
                                    correlation_id)
               /\ correlation_id \notin broker.inflight) =>
                  /\ ~broker'.last.raised
                  /\ broker'.pending = broker.pending
      ]_vars

-----------------------------------------------------------------------------
(* The FLASH quota over a longer run of requests *)

FlashInputs ==
    {[BaseRequest EXCEPT !.priority = "FLASH"],
     [BaseRequest EXCEPT !.priority = "FLASH", !.frequency = 121500],
     BaseRequest}

FlashAllocateInputs ==
    [asset_id : {"A1"}, frequency : {80000}, bandwidth_khz : {20},
     duration_minutes : {1}, location : {"LA"}, power_dbm : {4000},
     priority : {"FLASH"}]

FlashRequestDeconfliction ==
    \E input \in FlashInputs : request_deconfliction_upto(input, MaxFlash)

\* One commit of an approved FLASH request is followed
FlashAllocateFrequency ==
    \E input \in FlashAllocateInputs, authorization_id \in 1..(nextAuthId - 1) :
        /\ allocations = <<>>
        /\ allocate_frequency(input, authorization_id)

FlashNext == FlashRequestDeconfliction \/ FlashAllocateFrequency \/ Tick

FlashSpec == Init /\ [][FlashNext]_vars

\* The FLASH requests among the stored requests reqs
FlashRequests(reqs) == {id \in DOMAIN reqs : reqs[id].priority = "FLASH"}

MatchesRequest(allocation, request) ==
    /\ allocation.asset_id = request.asset_rid
    /\ allocation.frequency = request.frequency
    /\ allocation.bandwidth_khz = request.bandwidth_khz
    /\ allocation.location = request.location
    /\ allocation.power_dbm = request.power_dbm
    /\ allocation.priority = request.priority

\* C30: every allocation that allocate_frequency stores matches the request
\* whose APPROVED decision carries the authorization id presented: the same
\* asset, centre frequency, bandwidth, location, power and priority.
C30_CommitMatchesApprovedRequest ==
    [][\A input \in CommitAllocateInputs, authorization_id \in AuthorizationInputs :
           (Committed(result') /\ allocate_frequency(input, authorization_id)) =>
               \E id \in DOMAIN responses :
                   /\ responses[id].status = "APPROVED"
                   /\ responses[id].authorization_id = authorization_id
                   /\ MatchesRequest(allocations'[result'.value.allocation_id],
                                     requests[id])]_vars

====
